---- MODULE Spec2Model ----
(***************************************************************************)
(* Shape-level model of wenet_speaker/models/resnet.py: the construction   *)
(* of the residual network (blocks, stages, head) and the forward call.    *)
(* Tensors are modelled by their shapes; modules by their hyper-parameters.*)
(***************************************************************************)
EXTENDS Integers, Sequences, FiniteSets, TLC

VARIABLES pc, call, net, x, ret

vars == <<pc, call, net, x, ret>>

(* ------------------------------ bounds -------------------------------- *)
\* per-stage block counts a direct constructor call draws from 0..MaxNumBlocks
MaxNumBlocks == 1
\* forward calls made on one input array
MaxCalls == 2

(* ------------------------------ inputs -------------------------------- *)
\* feature dimensions: below the 8-fold reduction, on it, off it, and the 40
\* of test()
FeatDims == {7, 8, 9, 40}
\* embedding dimensions: the default and the 256 of test()
EmbedDims == {128, 256}
\* statistics per channel the head is built for
NStats == {1, 2}
\* base channel widths of a direct constructor call
MChannels == {16, 32}
\* batch sizes: a single utterance and the 10 of test()
Batches == {1, 10}
\* time-frame counts: none, one, three, and the 150 and 200 of the scenarios
Frames == {0, 1, 3, 150, 200}

(* ------------------------- program constants -------------------------- *)
BasicBlock_expansion == 1
Bottleneck_expansion == 4
default_m_channels == 32
default_feat_dim == 40
default_n_stats == 2
default_embed_dim == 128

Max(a, b) == IF a >= b THEN a ELSE b

(* ------------------------------ modules ------------------------------- *)
\* nn.Conv2d(in, out, kernel_size, stride, padding, bias=False)
Conv2d(in_channels, out_channels, kernel_size, stride, padding) ==
    [op |-> "Conv2d", in_channels |-> in_channels, out_channels |-> out_channels,
     kernel_size |-> kernel_size, stride |-> stride, padding |-> padding]

\* nn.BatchNorm2d(n) / nn.BatchNorm1d(n, affine=False)
BatchNorm(num_features) == [op |-> "BatchNorm", num_features |-> num_features]

\* nn.Linear(in_features, out_features)
Linear(in_features, out_features) ==
    [op |-> "Linear", in_features |-> in_features, out_features |-> out_features]

expansion(block) ==
    IF block = "BasicBlock" THEN BasicBlock_expansion ELSE Bottleneck_expansion

\* BasicBlock.__init__
BasicBlock(in_planes, planes, stride) ==
    [type |-> "BasicBlock",
     conv1 |-> Conv2d(in_planes, planes, 3, stride, 1),
     bn1 |-> BatchNorm(planes),
     conv2 |-> Conv2d(planes, planes, 3, 1, 1),
     bn2 |-> BatchNorm(planes),
     shortcut |->
        IF stride # 1 \/ in_planes # BasicBlock_expansion * planes
        THEN <<Conv2d(in_planes, BasicBlock_expansion * planes, 1, stride, 0),
               BatchNorm(BasicBlock_expansion * planes)>>
        ELSE <<>>]

\* A shortcut that projects whenever the stride is not 1, and only then.
Bottleneck_StrideOnly(in_planes, planes, stride) ==
    [type |-> "Bottleneck",
     conv1 |-> Conv2d(in_planes, planes, 1, 1, 0),
     bn1 |-> BatchNorm(planes),
     conv2 |-> Conv2d(planes, planes, 3, stride, 1),
     bn2 |-> BatchNorm(planes),
     conv3 |-> Conv2d(planes, Bottleneck_expansion * planes, 1, 1, 0),
     bn3 |-> BatchNorm(Bottleneck_expansion * planes),
     shortcut |->
        IF stride # 1
        THEN <<Conv2d(in_planes, Bottleneck_expansion * planes, 1, stride, 0),
               BatchNorm(Bottleneck_expansion * planes)>>
        ELSE <<>>]

\* Bottleneck.__init__
Bottleneck(in_planes, planes, stride) ==
    [type |-> "Bottleneck",
     conv1 |-> Conv2d(in_planes, planes, 1, 1, 0),
     bn1 |-> BatchNorm(planes),
     conv2 |-> Conv2d(planes, planes, 3, stride, 1),
     bn2 |-> BatchNorm(planes),
     conv3 |-> Conv2d(planes, Bottleneck_expansion * planes, 1, 1, 0),
     bn3 |-> BatchNorm(Bottleneck_expansion * planes),
     shortcut |->
        IF stride # 1 \/ in_planes # Bottleneck_expansion * planes
        THEN <<Conv2d(in_planes, Bottleneck_expansion * planes, 1, stride, 0),
               BatchNorm(Bottleneck_expansion * planes)>>
        ELSE <<>>]

\* block(self.in_planes, planes, stride), block being one of the two classes
block_new(block, in_planes, planes, stride) ==
    IF block = "BasicBlock" THEN BasicBlock(in_planes, planes, stride)
                            ELSE Bottleneck(in_planes, planes, stride)

\* A stage builder that gives every block of the stage the stage's stride.
strides_list_AllStrided(stride, num_blocks) ==
    <<stride>> \o [i \in 1..Max(num_blocks - 1, 0) |-> stride]

\* strides = [stride] + [1]*(num_blocks-1); a list times a number <= 0 is []
strides_list(stride, num_blocks) ==
    <<stride>> \o [i \in 1..Max(num_blocks - 1, 0) |-> 1]

\* A loop that forgets the expansion factor when it updates the counter.
RECURSIVE make_layer_loop_NoExpansion(_, _, _, _, _)
make_layer_loop_NoExpansion(block, planes, strides, layers, in_planes) ==
    IF strides = <<>>
    THEN [layers |-> layers, in_planes |-> in_planes]
    ELSE make_layer_loop_NoExpansion(block, planes, Tail(strides),
            Append(layers, block_new(block, in_planes, planes, Head(strides))),
            planes)

\* the for loop of _make_layer: one block per stride, self.in_planes updated
\* after each block
RECURSIVE make_layer_loop(_, _, _, _, _)
make_layer_loop(block, planes, strides, layers, in_planes) ==
    IF strides = <<>>
    THEN [layers |-> layers, in_planes |-> in_planes]
    ELSE make_layer_loop(block, planes, Tail(strides),
            Append(layers, block_new(block, in_planes, planes, Head(strides))),
            planes * expansion(block))

\* ResNet._make_layer; self.in_planes is passed in and handed back
_make_layer(in_planes, block, planes, num_blocks, stride) ==
    make_layer_loop(block, planes, strides_list(stride, num_blocks), <<>>, in_planes)

\* the aggregators of the pooling module (TSTP(), TAP(), SAP())
Pool(type) == [type |-> type]

\* A stem convolution built without padding.
stem_conv_NoPadding(m_channels) == Conv2d(1, m_channels, 3, 1, 0)

\* self.conv1 of ResNet: 3x3, stride 1, padding 1, one input channel
stem_conv(m_channels) == Conv2d(1, m_channels, 3, 1, 1)

\* ResNet.__init__; a module is constructed in training mode and nothing in
\* resnet.py leaves it
ResNet(block, num_blocks, m_channels, feat_dim, n_stats, embed_dim) ==
    LET stats_dim == (feat_dim \div 8) * m_channels * 8
        l1 == _make_layer(m_channels, block, m_channels, num_blocks[1], 1)
        l2 == _make_layer(l1.in_planes, block, m_channels * 2, num_blocks[2], 2)
        l3 == _make_layer(l2.in_planes, block, m_channels * 4, num_blocks[3], 2)
        l4 == _make_layer(l3.in_planes, block, m_channels * 8, num_blocks[4], 2)
    IN [training |-> TRUE,
        in_planes |-> l4.in_planes,
        feat_dim |-> feat_dim,
        embed_dim |-> embed_dim,
        stats_dim |-> stats_dim,
        conv1 |-> stem_conv(m_channels),
        bn1 |-> BatchNorm(m_channels),
        layer1 |-> l1.layers,
        layer2 |-> l2.layers,
        layer3 |-> l3.layers,
        layer4 |-> l4.layers,
        pool |-> Pool("TSTP"),
        seg_1 |-> Linear(stats_dim * n_stats * expansion(block), embed_dim),
        seg_bn_1 |-> BatchNorm(embed_dim),
        seg_2 |-> Linear(embed_dim, embed_dim)]


(* ------------------------------ tensors ------------------------------- *)
\* A tensor is its shape; Raised stands for the exception that ended the call.
Tensor(shape) == [ok |-> TRUE, shape |-> shape]
Raised == [ok |-> FALSE, shape |-> <<>>]

\* x.unsqueeze_(1): a dimension of size 1 inserted at position 1, in place
unsqueeze_1(shape) == <<shape[1], 1>> \o Tail(shape)

\* F.conv2d on a batched input: the input must be 4-D with the module's input
\* channels and, padded, no smaller than the kernel
conv2d(m, t) ==
    IF ~t.ok THEN Raised
    ELSE IF Len(t.shape) # 4 THEN Raised
    ELSE LET s == t.shape
             k == m.kernel_size
             p == m.padding
         IN IF \/ s[2] # m.in_channels
               \/ s[3] + 2 * p < k
               \/ s[4] + 2 * p < k
            THEN Raised
            ELSE Tensor(<<s[1], m.out_channels,
                          (s[3] + 2 * p - k) \div m.stride + 1,
                          (s[4] + 2 * p - k) \div m.stride + 1>>)

\* nn.BatchNorm2d: in training mode it refuses one value per channel
batch_norm2d(m, t, training) ==
    IF ~t.ok THEN Raised
    ELSE IF Len(t.shape) # 4 THEN Raised
    ELSE IF t.shape[2] # m.num_features THEN Raised
    ELSE IF training /\ t.shape[1] * t.shape[3] * t.shape[4] = 1 THEN Raised
    ELSE t

\* nn.BatchNorm1d on a (batch, features) input
batch_norm1d(m, t, training) ==
    IF ~t.ok THEN Raised
    ELSE IF Len(t.shape) # 2 THEN Raised
    ELSE IF t.shape[2] # m.num_features THEN Raised
    ELSE IF training /\ t.shape[1] = 1 THEN Raised
    ELSE t

\* nn.Linear: the last dimension must be in_features
linear(m, t) ==
    IF ~t.ok THEN Raised
    ELSE IF Len(t.shape) # 2 THEN Raised
    ELSE IF t.shape[2] # m.in_features THEN Raised
    ELSE Tensor(<<t.shape[1], m.out_features>>)

relu(t) == t

\* out += other: other must broadcast to the shape of out
iadd(out, other) ==
    IF ~out.ok \/ ~other.ok THEN Raised
    ELSE IF Len(other.shape) # Len(out.shape) THEN Raised
    ELSE IF \A i \in 1..Len(out.shape) :
               other.shape[i] = out.shape[i] \/ other.shape[i] = 1
         THEN out
         ELSE Raised

\* self.shortcut(x): nn.Sequential() is the identity
shortcut_forward(b, t, training) ==
    IF Len(b.shortcut) = 0 THEN t
    ELSE batch_norm2d(b.shortcut[2], conv2d(b.shortcut[1], t), training)

\* BasicBlock.forward
BasicBlock_forward(b, t, training) ==
    LET out1 == relu(batch_norm2d(b.bn1, conv2d(b.conv1, t), training))
        out2 == batch_norm2d(b.bn2, conv2d(b.conv2, out1), training)
        out3 == iadd(out2, shortcut_forward(b, t, training))
    IN relu(out3)

\* Bottleneck.forward
Bottleneck_forward(b, t, training) ==
    LET out1 == relu(batch_norm2d(b.bn1, conv2d(b.conv1, t), training))
        out2 == relu(batch_norm2d(b.bn2, conv2d(b.conv2, out1), training))
        out3 == batch_norm2d(b.bn3, conv2d(b.conv3, out2), training)
        out4 == iadd(out3, shortcut_forward(b, t, training))
    IN relu(out4)

\* nn.Sequential(*layers) applied to a feature map: the blocks in order; an
\* exception in a block ends the call
RECURSIVE Sequential_forward(_, _, _)
Sequential_forward(layers, t, training) ==
    IF ~t.ok THEN Raised
    ELSE IF layers = <<>> THEN t
    ELSE LET b == Head(layers)
             o == IF b.type = "BasicBlock" THEN BasicBlock_forward(b, t, training)
                                           ELSE Bottleneck_forward(b, t, training)
         IN Sequential_forward(Tail(layers), o, training)

\* The aggregators: a (batch, channels, frequency, time) map reduced over time
\* to (batch, channels x frequency x statistics); TSTP emits mean and standard
\* deviation, TAP the mean, SAP the attention-weighted mean and a penalty, one
\* scalar per batch item.
pool_forward(pool, t) ==
    IF ~t.ok \/ Len(t.shape) # 4
    THEN IF pool.type = "SAP" THEN <<Raised, Raised>> ELSE <<Raised>>
    ELSE LET s == t.shape
         IN CASE pool.type = "TSTP" -> <<Tensor(<<s[1], s[2] * s[3] * 2>>)>>
              [] pool.type = "TAP"  -> <<Tensor(<<s[1], s[2] * s[3]>>)>>
              [] pool.type = "SAP"  -> <<Tensor(<<s[1], s[2] * s[3]>>), Tensor(<<s[1]>>)>>

\* isinstance(self.pool, SAP)
is_SAP(pool) == pool.type = "SAP"

\* A return statement that always returns the pair.
forward_return_Pair(pool, embed_a, embed_b, penalty) == <<embed_a, embed_b>>

\* the return statement of ResNet.forward
forward_return(pool, embed_a, embed_b, penalty) ==
    IF is_SAP(pool) THEN <<embed_a, embed_b, penalty>>
                    ELSE <<embed_a, embed_b>>

\* ResNet.forward on an input of shape xs: the shape x is left with, whether
\* the call returned, what it returned, and the feature maps after the stem
\* and after each stage
ResNet_forward(n, xs) ==
    LET x1 == unsqueeze_1(xs)
        tr == n.training
        stem == relu(batch_norm2d(n.bn1, conv2d(n.conv1, Tensor(x1)), tr))
        o1 == Sequential_forward(n.layer1, stem, tr)
        o2 == Sequential_forward(n.layer2, o1, tr)
        o3 == Sequential_forward(n.layer3, o2, tr)
        o4 == Sequential_forward(n.layer4, o3, tr)
        pooled == pool_forward(n.pool, o4)
        stats == pooled[1]
        penalty == IF is_SAP(n.pool) THEN pooled[2] ELSE Raised
        embed_a == linear(n.seg_1, stats)
        out == batch_norm1d(n.seg_bn_1, relu(embed_a), tr)
        embed_b == linear(n.seg_2, out)
    IN [x |-> x1,
        ok |-> embed_b.ok,
        val |-> IF embed_b.ok
                THEN forward_return(n.pool, embed_a.shape, embed_b.shape, penalty.shape)
                ELSE <<>>,
        maps |-> <<stem, o1, o2, o3, o4>>]

(* --------------------------- depth presets ---------------------------- *)
ResNet18(feat_dim, embed_dim, n_stats) ==
    ResNet("BasicBlock", <<2, 2, 2, 2>>, default_m_channels, feat_dim, n_stats, embed_dim)

ResNet34(feat_dim, embed_dim, n_stats) ==
    ResNet("BasicBlock", <<3, 4, 6, 3>>, default_m_channels, feat_dim, n_stats, embed_dim)

ResNet50(feat_dim, embed_dim, n_stats) ==
    ResNet("Bottleneck", <<3, 4, 6, 3>>, default_m_channels, feat_dim, n_stats, embed_dim)

ResNet101(feat_dim, embed_dim, n_stats) ==
    ResNet("Bottleneck", <<3, 4, 23, 3>>, default_m_channels, feat_dim, n_stats, embed_dim)

\* The names bound at module level when ResNet152 runs: the imports, the
\* classes and the functions of resnet.py and the aggregators of the pooling
\* module.
ModuleGlobals ==
    {"torch", "nn", "F", "TSTP", "TAP", "SAP", "BasicBlock", "Bottleneck", "ResNet",
     "ResNet18", "ResNet34", "ResNet50", "ResNet101", "ResNet152", "test"}

\* ResNet152 has no parameters: feat_dim, embed_dim and n_stats in its body are
\* free names, looked up among the module's globals when the call is made.
ResNet152_free_names == {"feat_dim", "embed_dim", "n_stats"}

NoNet == [training |-> FALSE]

(* ------------------------------- state -------------------------------- *)
NoCall == [fn |-> "", block |-> "", num_blocks |-> <<>>, m_channels |-> 0,
           feat_dim |-> 0, embed_dim |-> 0, n_stats |-> 0]

NoRet == [called |-> FALSE, input |-> <<>>, ok |-> FALSE, val |-> <<>>, maps |-> <<>>]

Init ==
    /\ pc = "start"
    /\ call = NoCall
    /\ net = NoNet
    /\ x = <<>>
    /\ ret = NoRet

CallResNet18 ==
    \E fd \in FeatDims, ed \in EmbedDims, ns \in NStats :
        /\ pc = "start"
        /\ pc' = "built"
        /\ call' = [fn |-> "ResNet18", block |-> "BasicBlock", num_blocks |-> <<2, 2, 2, 2>>,
                    m_channels |-> default_m_channels, feat_dim |-> fd,
                    embed_dim |-> ed, n_stats |-> ns]
        /\ net' = ResNet18(fd, ed, ns)
        /\ UNCHANGED <<x, ret>>

CallResNet34 ==
    \E fd \in FeatDims, ed \in EmbedDims, ns \in NStats :
        /\ pc = "start"
        /\ pc' = "built"
        /\ call' = [fn |-> "ResNet34", block |-> "BasicBlock", num_blocks |-> <<3, 4, 6, 3>>,
                    m_channels |-> default_m_channels, feat_dim |-> fd,
                    embed_dim |-> ed, n_stats |-> ns]
        /\ net' = ResNet34(fd, ed, ns)
        /\ UNCHANGED <<x, ret>>

CallResNet50 ==
    \E fd \in FeatDims, ed \in EmbedDims, ns \in NStats :
        /\ pc = "start"
        /\ pc' = "built"
        /\ call' = [fn |-> "ResNet50", block |-> "Bottleneck", num_blocks |-> <<3, 4, 6, 3>>,
                    m_channels |-> default_m_channels, feat_dim |-> fd,
                    embed_dim |-> ed, n_stats |-> ns]
        /\ net' = ResNet50(fd, ed, ns)
        /\ UNCHANGED <<x, ret>>

CallResNet101 ==
    \E fd \in FeatDims, ed \in EmbedDims, ns \in NStats :
        /\ pc = "start"
        /\ pc' = "built"
        /\ call' = [fn |-> "ResNet101", block |-> "Bottleneck", num_blocks |-> <<3, 4, 23, 3>>,
                    m_channels |-> default_m_channels, feat_dim |-> fd,
                    embed_dim |-> ed, n_stats |-> ns]
        /\ net' = ResNet101(fd, ed, ns)
        /\ UNCHANGED <<x, ret>>

\* ResNet152(): the first free name that is no module global raises NameError
\* before ResNet is called; nothing is built.
CallResNet152 ==
    /\ pc = "start"
    /\ IF ResNet152_free_names \subseteq ModuleGlobals
       THEN /\ pc' = "built"
            /\ net' = ResNet("Bottleneck", <<3, 8, 36, 3>>, default_m_channels,
                             default_feat_dim, default_n_stats, default_embed_dim)
       ELSE /\ pc' = "NameError"
            /\ net' = NoNet
    /\ call' = [NoCall EXCEPT !.fn = "ResNet152"]
    /\ UNCHANGED <<x, ret>>

\* ResNet(block, num_blocks, m_channels, feat_dim, n_stats, embed_dim): the
\* constructor called directly
CallResNet ==
    \E block \in {"BasicBlock", "Bottleneck"},
       num_blocks \in [1..4 -> 0..MaxNumBlocks],
       mc \in MChannels, fd \in FeatDims, ns \in NStats, ed \in EmbedDims :
        /\ pc = "start"
        /\ pc' = "built"
        /\ call' = [fn |-> "ResNet", block |-> block, num_blocks |-> num_blocks,
                    m_channels |-> mc, feat_dim |-> fd, embed_dim |-> ed,
                    n_stats |-> ns]
        /\ net' = ResNet(block, num_blocks, mc, fd, ns, ed)
        /\ UNCHANGED <<x, ret>>

\* net.pool = TAP() and the like: the aggregator is a plain attribute, set
\* between inputs
SetPool ==
    \E p \in {"TSTP", "TAP", "SAP"} :
        /\ pc = "built"
        /\ x = <<>>
        /\ net.pool # Pool(p)
        /\ net' = [net EXCEPT !.pool = Pool(p)]
        /\ UNCHANGED <<pc, call, x, ret>>

\* torch.randn(B, F, T): a new input array; the model holds one array at a
\* time
NewInput ==
    \E B \in Batches, F \in FeatDims, T \in Frames :
        /\ pc = "built"
        /\ x = <<>>
        /\ x' = <<B, F, T>>
        /\ ret' = NoRet
        /\ UNCHANGED <<pc, call, net>>

\* the caller lets go of the array and of what the call on it returned
DropInput ==
    /\ pc = "built"
    /\ x # <<>>
    /\ x' = <<>>
    /\ ret' = NoRet
    /\ UNCHANGED <<pc, call, net>>

\* net(x): ResNet.forward on the array x holds; ret records the call. Every
\* call leaves x with one more dimension: at most MaxCalls calls per array.
Forward ==
    /\ pc = "built"
    /\ x # <<>>
    /\ Len(x) < 3 + MaxCalls
    /\ LET r == ResNet_forward(net, x)
       IN /\ x' = r.x
          /\ ret' = [called |-> TRUE, input |-> x, ok |-> r.ok, val |-> r.val,
                     maps |-> r.maps]
    /\ UNCHANGED <<pc, call, net>>

\* a depth preset is called, then inputs are made and the network is called
Next ==
    \/ CallResNet18
    \/ CallResNet34
    \/ CallResNet50
    \/ CallResNet101
    \/ CallResNet152
    \/ SetPool
    \/ NewInput
    \/ DropInput
    \/ Forward

Spec == Init /\ [][Next]_vars

\* construction alone: a depth preset or the constructor itself
NextBuild ==
    \/ CallResNet18
    \/ CallResNet34
    \/ CallResNet50
    \/ CallResNet101
    \/ CallResNet152
    \/ CallResNet

SpecBuild == Init /\ [][NextBuild]_vars

(* ------------------------- reading a network -------------------------- *)
\* the statistics per channel each aggregator emits
PoolNStats(pool) == IF pool.type = "TSTP" THEN 2 ELSE 1

Stage(n, i) ==
    CASE i = 1 -> n.layer1
      [] i = 2 -> n.layer2
      [] i = 3 -> n.layer3
      [] i = 4 -> n.layer4

AllBlocks(n) == n.layer1 \o n.layer2 \o n.layer3 \o n.layer4

\* the arguments a block was constructed with, read back from its convolutions
blk_in_planes(b) == b.conv1.in_channels
blk_planes(b) == b.conv1.out_channels
blk_stride(b) == IF b.type = "BasicBlock" THEN b.conv1.stride ELSE b.conv2.stride
\* the channels of the map a block puts out
blk_out(b) == IF b.type = "BasicBlock" THEN b.conv2.out_channels
                                       ELSE b.conv3.out_channels

Presets == {"ResNet18", "ResNet34", "ResNet50", "ResNet101", "ResNet152"}

(* ------------------------------- claims ------------------------------- *)

\* C1: every depth preset (18, 34, 50, 101, 152) constructs a network, and a
\* forward call of it on a batch of B feature sequences (B, feat_dim, T),
\* with feat_dim a multiple of 8, T >= 1, B >= 2 and the aggregator emitting
\* the n_stats the head was built for, returns embed_a and embed_b, each of
\* shape (B, embed_dim).
C1_PresetForwardShapes ==
    /\ call.fn \in Presets => pc = "built"
    /\ ( /\ pc = "built"
         /\ ret.called
         /\ Len(ret.input) = 3
         /\ ret.input[1] >= 2
         /\ ret.input[2] = call.feat_dim
         /\ ret.input[3] >= 1
         /\ call.feat_dim % 8 = 0
         /\ call.n_stats = PoolNStats(net.pool) )
       => /\ ret.ok
          /\ ret.val[1] = <<ret.input[1], call.embed_dim>>
          /\ ret.val[2] = <<ret.input[1], call.embed_dim>>

\* C2: in every constructed network stats_dim times the block expansion equals
\* the per-statistic flattened width (channels x frequency bins) of the map
\* that leaves stage 4 for an input with feat_dim frequency bins, and the first
\* linear layer's input width is n_stats times that width.
C2_StatsDimMatchesMap ==
    pc = "built" =>
        LET o4 == ResNet_forward(net, <<10, net.feat_dim, 200>>).maps[5]
        IN /\ o4.ok
           /\ net.stats_dim * expansion(call.block) = o4.shape[2] * o4.shape[3]
           /\ net.seg_1.in_features = o4.shape[2] * o4.shape[3] * call.n_stats

\* C3: a forward call on a (B, F, T) input whose F differs from the feat_dim
\* the network was constructed with, or whose T leaves a zero-length
\* dimension, ends in an error and returns no embeddings.
C3_MismatchRaises ==
    ( /\ pc = "built"
      /\ ret.called
      /\ Len(ret.input) = 3
      /\ \/ ret.input[2] # net.feat_dim
         \/ ret.input[3] = 0 )
    => ~ret.ok

\* C4: each of the five presets constructs a network of the listed block
\* variant and per-stage block counts and hands feat_dim, embed_dim and
\* n_stats to the network unchanged; no preset call ends in an error.
C4_PresetTable ==
    [ResNet18  |-> [block |-> "BasicBlock", counts |-> <<2, 2, 2, 2>>],
     ResNet34  |-> [block |-> "BasicBlock", counts |-> <<3, 4, 6, 3>>],
     ResNet50  |-> [block |-> "Bottleneck", counts |-> <<3, 4, 6, 3>>],
     ResNet101 |-> [block |-> "Bottleneck", counts |-> <<3, 4, 23, 3>>],
     ResNet152 |-> [block |-> "Bottleneck", counts |-> <<3, 8, 36, 3>>]]

\* C4: see C4_PresetTable; the statement checked of every state.
C4_PresetsBuild ==
    call.fn \in Presets =>
        /\ pc = "built"
        /\ \A i \in 1..4 :
              /\ Len(Stage(net, i)) = C4_PresetTable[call.fn].counts[i]
              /\ \A j \in 1..Len(Stage(net, i)) :
                    Stage(net, i)[j].type = C4_PresetTable[call.fn].block
        /\ net.feat_dim = call.feat_dim
        /\ net.embed_dim = call.embed_dim
        /\ net.seg_1 = Linear(net.stats_dim * call.n_stats
                                * expansion(C4_PresetTable[call.fn].block),
                              call.embed_dim)
        /\ net.seg_2 = Linear(call.embed_dim, call.embed_dim)

\* C5: a second forward call on the array a first call completed on, with
\* the network unchanged, receives the input the first received, completes
\* and returns what the first returned.
C5_SecondCallSame ==
    [][ (Forward /\ ret.called /\ ret.ok)
        => /\ ret'.input = ret.input
           /\ ret'.ok
           /\ ret'.val = ret.val ]_vars

\* C6: a forward call that returns, returns a 3-tuple exactly when the
\* configured aggregator is SAP and a 2-tuple otherwise, and the third element
\* is the penalty the aggregator returned for the map that left stage 4.
C6_Arity ==
    (pc = "built" /\ ret.called /\ ret.ok) =>
        /\ Len(ret.val) \in {2, 3}
        /\ Len(ret.val) = 3 <=> is_SAP(net.pool)
        /\ Len(pool_forward(net.pool, ret.maps[5])) = 2 <=> Len(ret.val) = 3
        /\ Len(ret.val) = 3 =>
              ret.val[3] = pool_forward(net.pool, ret.maps[5])[2].shape

\* C6 happens: a call on a network whose aggregator is SAP returned three
\* elements.
C6_Witness ==
    /\ pc = "built"
    /\ ret.called
    /\ ret.ok
    /\ is_SAP(net.pool)
    /\ Len(ret.val) = 3
    /\ ret.val[3] = <<ret.input[1]>>

\* C7: in every constructed network a block's shortcut is the identity if and
\* only if its stride is 1 and its input channels equal expansion x planes;
\* otherwise it is a 1x1 convolution with the block's stride to expansion x
\* planes channels, followed by normalization.
C7_Shortcut ==
    pc = "built" =>
        \A k \in 1..Len(AllBlocks(net)) :
            LET b == AllBlocks(net)[k]
                wide == expansion(b.type) * blk_planes(b)
            IN /\ Len(b.shortcut) = 0
                    <=> (blk_stride(b) = 1 /\ blk_in_planes(b) = wide)
               /\ Len(b.shortcut) # 0 =>
                    b.shortcut = <<Conv2d(blk_in_planes(b), wide, 1, blk_stride(b), 0),
                                   BatchNorm(wide)>>

\* C7 happens: a Bottleneck network whose first block projects at stride 1
\* (its input is narrower than its output) and whose second block is the
\* identity.
C7_Witness ==
    /\ pc = "built"
    /\ call.block = "Bottleneck"
    /\ Len(net.layer1) >= 2
    /\ blk_stride(net.layer1[1]) = 1
    /\ Len(net.layer1[1].shortcut) = 2
    /\ Len(net.layer1[2].shortcut) = 0
    /\ Len(net.layer2[1].shortcut) = 2

\* C8: a forward call on a (B, F, T) input with T >= 1 ends as the call on
\* (B, F, T2) ends for every other T2 >= 1: both raise, or both return the
\* same tuple with embed_a and embed_b of shape (B, embed_dim), and then the
\* feature maps after the stem and after each stage agree in batch, channels
\* and frequency.
C8_TimeInvariant ==
    (pc = "built" /\ ret.called /\ Len(ret.input) = 3 /\ ret.input[3] >= 1) =>
        \A T2 \in Frames \ {0} :
            LET r2 == ResNet_forward(net, <<ret.input[1], ret.input[2], T2>>)
            IN /\ r2.ok = ret.ok
               /\ r2.val = ret.val
               /\ ret.ok =>
                    /\ ret.val[1] = <<ret.input[1], net.embed_dim>>
                    /\ ret.val[2] = <<ret.input[1], net.embed_dim>>
                    /\ \A i \in 1..5 :
                          /\ r2.maps[i].ok
                          /\ SubSeq(r2.maps[i].shape, 1, 3)
                                = SubSeq(ret.maps[i].shape, 1, 3)

\* C8 happens: a call on 150 frames returned, and the call on 200 frames has a
\* longer map after stage 4.
C8_Witness ==
    /\ pc = "built"
    /\ ret.called
    /\ ret.ok
    /\ ret.input[3] = 150
    /\ ret.maps[5].shape[4] = 19
    /\ ResNet_forward(net, <<ret.input[1], ret.input[2], 200>>).maps[5].shape[4] = 25

\* C9: in every constructed network the first block's input channels are
\* m_channels, the stem's output width; every later block's input channels are
\* the expanded output width planes x expansion of the block before it, within
\* a stage and across stages; and the counter is left at the last block's
\* expanded output width.
C9_Chain ==
    pc = "built" =>
        LET bs == AllBlocks(net)
        IN /\ net.conv1.out_channels = call.m_channels
           /\ blk_in_planes(bs[1]) = call.m_channels
           /\ \A k \in 1..(Len(bs) - 1) :
                 /\ blk_in_planes(bs[k + 1]) = blk_planes(bs[k]) * expansion(bs[k].type)
                 /\ blk_in_planes(bs[k + 1]) = blk_out(bs[k])
           /\ net.in_planes = blk_planes(bs[Len(bs)]) * expansion(bs[Len(bs)].type)

\* C9 happens: a Bottleneck network, whose stage 2 takes the four-fold
\* expanded width of stage 1.
C9_Witness ==
    /\ pc = "built"
    /\ call.block = "Bottleneck"
    /\ blk_in_planes(net.layer2[1]) = 4 * call.m_channels
    /\ blk_in_planes(net.layer1[1]) = call.m_channels
    /\ net.in_planes = 32 * call.m_channels

\* the layout of the stages but for their lengths: the stage's stride on the
\* first block only, stride 1 in stage 1 and 2 in stages 2 to 4, three
\* stride-2 blocks in all, planes m, 2m, 4m, 8m
C10_Layout ==
    /\ \A i \in 1..4 :
          LET L == Stage(net, i)
          IN /\ blk_stride(L[1]) = (IF i = 1 THEN 1 ELSE 2)
             /\ \A j \in 2..Len(L) : blk_stride(L[j]) = 1
             /\ \A j \in 1..Len(L) : blk_planes(L[j]) = call.m_channels * 2 ^ (i - 1)
    /\ Cardinality({k \in 1..Len(AllBlocks(net)) :
                        blk_stride(AllBlocks(net)[k]) = 2}) = 3

\* C10 as stated: in every constructed network stage i holds exactly
\* num_blocks[i] blocks, laid out as C10_Layout says.
C10_StageLayout ==
    pc = "built" =>
        /\ \A i \in 1..4 : Len(Stage(net, i)) = call.num_blocks[i]
        /\ C10_Layout

\* C10, amended: in every constructed network stage i holds exactly
\* max(num_blocks[i], 1) blocks, laid out as C10_Layout says.
C10_StageLayoutAmended ==
    pc = "built" =>
        /\ \A i \in 1..4 : Len(Stage(net, i)) = Max(call.num_blocks[i], 1)
        /\ C10_Layout

\* C10 happens: a network with a stage of many blocks, the first at stride 2
\* and the last at stride 1.
C10_Witness ==
    /\ pc = "built"
    /\ call.num_blocks[3] = 23
    /\ Len(net.layer3) = 23
    /\ blk_stride(net.layer3[1]) = 2
    /\ blk_stride(net.layer3[23]) = 1

====
